---------------------------- MODULE Spec2Model ----------------------------
(***************************************************************************)
(* A model of pepfrag: the Peptide class (src/pepfrag/pepfrag.py) and the  *)
(* ion generators (src/pepfrag/ion_generators.py).                         *)
(*                                                                         *)
(* Conventions of the model                                                *)
(*  - A mass is an integer number of milli-Dalton (the float of the source *)
(*    rounded to three decimals); float division is \div.                  *)
(*  - A Python string that the code inspects character by character (a     *)
(*    modification site, an ion label) is a sequence of tokens; in a label *)
(*    every "+" is a token of its own, the radical bullet is the token     *)
(*    "rad", and a number is the token ToString(n).                        *)
(*  - Optional[int] is <<>> (None) or <<m>>; Optional[List[Ion]] is the    *)
(*    record [some, val].                                                  *)
(*  - A function that can raise returns [err, val]: err is "none" or the   *)
(*    name of the exception, and val is meaningful only when err = "none". *)
(***************************************************************************)
EXTENDS Integers, Sequences, FiniteSets, TLC

VARIABLES
    seq,            \* Peptide._seq: a sequence of residue letters
    charge,         \* Peptide._charge
    mods,           \* Peptide._mods: a sequence of ModSite records
    mass_type,      \* Peptide.mass_type: "mono" or "avg"
    radical,        \* Peptide.radical
    fragment_ions,  \* Peptide.fragment_ions: the single-slot cache
    op,             \* the last operation the caller performed
    arg,            \* the arguments of the last fragment() call
    ret,            \* what the last call returned (ions, mass, PeptideMass)
    err,            \* the exception the last call raised, or "none"
    recomputed,     \* whether the last call ran Peptide._fragment
    old,            \* fragment_ions as it was before the last operation
    generator,      \* TYPE_GENERATOR_MAP[IonType.imm]: its sequence, mod_sites
    threads         \* the concurrent fragment() calls, one record a thread

vars == <<seq, charge, mods, mass_type, radical, fragment_ions,
          op, arg, ret, err, recomputed, old, generator, threads>>

pep == <<seq, charge, mods, mass_type, radical>>

(***************************************************************************)
(* Bounds of the model.                                                    *)
(***************************************************************************)
MaxLen == 3
MaxCharge == 2
MaxMods == 1
MaxMassMods == 2
MaxIonLen == 4
MaxIonMods == 1

(***************************************************************************)
(* constants.py                                                            *)
(***************************************************************************)
AA_MASSES ==
    [G |-> [mono |-> 57021,  avg |-> 57051],
     A |-> [mono |-> 71037,  avg |-> 71078],
     S |-> [mono |-> 87032,  avg |-> 87077],
     P |-> [mono |-> 97053,  avg |-> 97115],
     V |-> [mono |-> 99068,  avg |-> 99131],
     T |-> [mono |-> 101048, avg |-> 101104],
     C |-> [mono |-> 103009, avg |-> 103143],
     I |-> [mono |-> 113084, avg |-> 113158],
     L |-> [mono |-> 113084, avg |-> 113158],
     N |-> [mono |-> 114043, avg |-> 114103],
     D |-> [mono |-> 115027, avg |-> 115088],
     Q |-> [mono |-> 128059, avg |-> 128129],
     K |-> [mono |-> 128095, avg |-> 128173],
     E |-> [mono |-> 129043, avg |-> 129114],
     M |-> [mono |-> 131040, avg |-> 131196],
     H |-> [mono |-> 137059, avg |-> 137140],
     F |-> [mono |-> 147068, avg |-> 147174],
     R |-> [mono |-> 156101, avg |-> 156186],
     Y |-> [mono |-> 163063, avg |-> 163174],
     W |-> [mono |-> 186079, avg |-> 186210]]

FIXED_MASSES ==
    [tag   |-> 304205,
     H2O   |-> 18011,
     H     |-> 1007,
     CO    |-> 27995,
     CO2   |-> 43990,
     NH3   |-> 17027,
     N     |-> 14003,
     cys_c |-> 57021]

MassType == {"mono", "avg"}

\* getattr(AA_MASSES[aa], self.mass_type.name)
AAMass(aa, mt) == IF mt = "mono" THEN AA_MASSES[aa].mono ELSE AA_MASSES[aa].avg

(***************************************************************************)
(* Values                                                                  *)
(***************************************************************************)
None == <<>>
Some(m) == <<m>>

\* A raised exception and a returned value.
Raise(e, dflt) == [err |-> e, val |-> dflt]
Return(v) == [err |-> "none", val |-> v]

\* Exception propagation: an exception raised while r was computed leaves
\* the caller at once (with dflt in the place of a value); otherwise the
\* caller goes on with r's value.
Then(r, dflt, Go(_)) == IF r.err # "none" THEN Raise(r.err, dflt) ELSE Go(r.val)

\* ModSite = namedtuple("ModSite", ["mass", "site", "mod"]); the site is an
\* int (isint, n) or a str (its characters, s).
ModSite(m, site, name) == [mass |-> m, site |-> site, mod |-> name]
IntSite(n) == [isint |-> TRUE, n |-> n, s |-> <<>>]
StrSite(s) == [isint |-> FALSE, n |-> 0, s |-> s]

\* PeptideMass = namedtuple("PeptideMass", ["nterm", "seq", "cterm"])
PeptideMass(nterm, seq_masses, cterm) ==
    [nterm |-> nterm, seq |-> seq_masses, cterm |-> cterm]

NoPeptideMass == PeptideMass(None, <<>>, None)

\* Ion = namedtuple("Ion", ["mass", "label", "pos"])
Ion(m, label, pos) == [mass |-> m, label |-> label, pos |-> pos]

RECURSIVE sum(_)
sum(s) == IF s = <<>> THEN 0 ELSE Head(s) + sum(Tail(s))

RECURSIVE Flatten(_)
Flatten(ss) == IF ss = <<>> THEN <<>> ELSE Head(ss) \o Flatten(Tail(ss))

Range(s) == {s[i] : i \in 1..Len(s)}

(***************************************************************************)
(* str.lower() and str.replace("-", "") on a site string                   *)
(***************************************************************************)
Upper == <<"A","B","C","D","E","F","G","H","I","J","K","L","M",
           "N","O","P","Q","R","S","T","U","V","W","X","Y","Z">>
LowerOf == <<"a","b","c","d","e","f","g","h","i","j","k","l","m",
             "n","o","p","q","r","s","t","u","v","w","x","y","z">>

lower_char(c) ==
    IF \E i \in 1..Len(Upper) : Upper[i] = c
    THEN LowerOf[CHOOSE i \in 1..Len(Upper) : Upper[i] = c]
    ELSE c

lower(s) == [i \in 1..Len(s) |-> lower_char(s[i])]

remove_hyphens(s) == SelectSeq(s, LAMBDA c : c # "-")

\* mod.site.lower().replace("-", "")
normalize_site(s) == remove_hyphens(lower(s))

CTERM == <<"c","t","e","r","m">>
NTERM == <<"n","t","e","r","m">>

(***************************************************************************)
(* Peptide.calculate_mass (pepfrag.py:196-227)                             *)
(***************************************************************************)
\* site_mod_masses[idx] for a Python list of length n: idx in 0..n-1 counts
\* from the front, idx in -n..-1 from the back, anything else raises
\* IndexError.  The result is the 1-based position, or 0 for IndexError.
list_index(idx, n) ==
    IF idx >= 0 /\ idx < n THEN idx + 1
    ELSE IF idx < 0 /\ idx >= -n THEN n + idx + 1
    ELSE 0

\* The state of the loop over self.mods: the two terminal masses, the
\* per-position added masses and the exception raised so far.
ModAcc(nterm, cterm, site, e) ==
    [nterm |-> nterm, cterm |-> cterm, site |-> site, err |-> e]

\* One iteration of "for mod in self.mods" (pepfrag.py:212-222).
apply_mod(acc, mod) ==
    IF acc.err # "none" THEN acc
    ELSE IF mod.site.isint
    THEN LET at == list_index(mod.site.n - 1, Len(acc.site))
         IN  IF at = 0
             THEN [acc EXCEPT !.err = "IndexError"]
             ELSE [acc EXCEPT !.site[at] = @ + mod.mass]
    ELSE LET site == normalize_site(mod.site.s)
         IN  IF site = CTERM THEN [acc EXCEPT !.cterm = Some(mod.mass)]
             ELSE IF site = NTERM THEN [acc EXCEPT !.nterm = Some(mod.mass)]
             ELSE [acc EXCEPT !.err = "UnknownModificationSite"]

RECURSIVE mod_loop(_, _)
mod_loop(acc, md) ==
    IF md = <<>> THEN acc ELSE mod_loop(apply_mod(acc, Head(md)), Tail(md))

\* A faulty lookup, AA_MASSES.get(aa, 0): an unknown residue weighs nothing.
seq_masses_lenient(sq, site, mt) ==
    Return([i \in 1..Len(sq) |->
               (IF sq[i] \in DOMAIN AA_MASSES THEN AAMass(sq[i], mt) ELSE 0)
               + site[i]])

\* seq_masses = [AA_MASSES[aa].<mass_type> + site_mod_masses[ii] ...]
\* raises KeyError at the first residue that is no key of AA_MASSES.
seq_masses(sq, site, mt) ==
    IF \E i \in 1..Len(sq) : sq[i] \notin DOMAIN AA_MASSES
    THEN Raise("KeyError", <<>>)
    ELSE Return([i \in 1..Len(sq) |-> AAMass(sq[i], mt) + site[i]])

\* The outcome of the loop over self.mods as a raised exception or a value.
mods_result(acc) == [err |-> acc.err, val |-> acc]

calculate_mass(sq, md, mt) ==
    Then(mods_result(mod_loop(ModAcc(None, None, [i \in 1..Len(sq) |-> 0], "none"),
                              md)),
         NoPeptideMass,
         LAMBDA acc :
            Then(seq_masses(sq, acc.site, mt), NoPeptideMass,
                 LAMBDA sm : Return(PeptideMass(acc.nterm, sm, acc.cterm))))

\* Peptide.peptide_mass (pepfrag.py:123-129)
peptide_mass(sq, md, mt) == calculate_mass(sq, md, mt)

\* The total of a PeptideMass as Peptide.mass adds it up (pepfrag.py:138-141).
total_mass(pm) ==
    sum(pm.seq) + FIXED_MASSES.H2O + (IF pm.nterm # None THEN pm.nterm[1] ELSE 0)

\* Peptide.mass (pepfrag.py:131-141)
mass(sq, md, mt) ==
    Then(peptide_mass(sq, md, mt), 0, LAMBDA pep_mass : Return(total_mass(pep_mass)))

\* Peptide._ion_masses (pepfrag.py:288-313): the b and y cumulative sums of a
\* PeptideMass.
rev(s) == [i \in 1..Len(s) |-> s[Len(s) + 1 - i]]

\* A faulty series that starts at the base itself, ii from 0 on.
cumulative_from_zero(base, masses) ==
    [ii \in 1..(Len(masses) + 1) |-> base + sum(SubSeq(masses, 1, ii - 1))]

\* base + sum(masses[:ii]) for ii in range(1, seq_len + 1)
cumulative(base, masses) ==
    [ii \in 1..Len(masses) |-> base + sum(SubSeq(masses, 1, ii))]

\* The base mass for y-type ions and for b-type ions.
y_base(pm) == IF pm.cterm = None THEN FIXED_MASSES.H2O ELSE pm.cterm[1]
b_base(pm) == IF pm.nterm = None THEN 0 ELSE pm.nterm[1]

_ion_masses(pm) ==
    [b |-> cumulative(b_base(pm), pm.seq),
     y |-> cumulative(y_base(pm), rev(pm.seq))]

(***************************************************************************)
(* ion_generators.py                                                       *)
(***************************************************************************)
\* class IonType(enum.Enum) (ion_generators.py:422-433)
IonType == {"precursor", "imm", "b", "y", "a", "c", "z"}

\* TYPE_GENERATOR_MAP (ion_generators.py:436-444): the registered types.
TYPE_GENERATOR_MAP == IonType

\* The neutral_losses keyword argument: absent (None) or a list of losses.
NoLosses == [some |-> FALSE, val |-> <<>>]
Losses(names) == [some |-> TRUE, val |-> names]

\* An item of a neutral_losses list: a str, or a (name, mass) tuple.
Named(n) == [pair |-> FALSE, name |-> n, mass |-> 0]
Pair(n, m) == [pair |-> TRUE, name |-> n, mass |-> m]

\* A list of strs.
Names(strs) == [i \in 1..Len(strs) |-> Named(strs[i])]

\* Whether FIXED_MASSES[nl] finds a value: nl must be a str that is a key; a
\* tuple is the key of nothing.
is_key(nl) == ~nl.pair /\ nl.name \in DOMAIN FIXED_MASSES

\* str(n) inside an f-string
Str(n) == ToString(n)

\* _charge_ions (ion_generators.py:447-467).
\* label.replace("+", f"{charge}+"): every "+" of the label is replaced.
replace_plus(label, chg) ==
    Flatten([i \in 1..Len(label) |->
                IF label[i] = "+" THEN <<Str(chg), "+">> ELSE <<label[i]>>])

\* A faulty rule that is one position too permissive.
min_pos_one_less(chg) == 2 * chg - 2

\* The empirical position-charge rule.
min_pos(chg) == 2 * chg - 1

charged_mass(m, chg) == (m + FIXED_MASSES.H * (chg - 1)) \div chg

\* One ion at the target charge.
charge_ion(ion, chg) ==
    Ion(charged_mass(ion.mass, chg), replace_plus(ion.label, chg), ion.pos)

charge_all(kept, chg) == [i \in 1..Len(kept) |-> charge_ion(kept[i], chg)]

_charge_ions(ions, chg) ==
    charge_all(SelectSeq(ions, LAMBDA ion : ion.pos >= min_pos(chg)), chg)

\* A faulty fix_mass that gives every type the mass of the b ion.
fix_mass_as_b(t, m) == m + FIXED_MASSES.H

\* fix_mass of each generator class.
fix_mass(t, m) ==
    CASE t = "imm" -> m - FIXED_MASSES.CO + FIXED_MASSES.H
      [] t = "b"   -> m + FIXED_MASSES.H
      [] t = "y"   -> m + FIXED_MASSES.H
      [] t = "a"   -> m + FIXED_MASSES.H - FIXED_MASSES.CO
      [] t = "c"   -> m + FIXED_MASSES.N + 3 * FIXED_MASSES.H
      [] t = "z"   -> m - FIXED_MASSES.N - 3 * FIXED_MASSES.H
      [] OTHER     -> m

\* base_ions of each generator class; pos is the 0-based index of enumerate.
\* ctx holds ImmoniumIonGenerator's self.sequence and self.mod_sites.
base_ions(t, m, pos, ctx) ==
    CASE t = "imm" ->
            <<Ion(m, <<"imm", "(", ctx.sequence[pos + 1]>>
                     \o (IF pos \in Range(ctx.mod_sites) THEN <<"*">> ELSE <<>>)
                     \o <<")">>, 0)>>
      [] t \in {"b", "y", "a", "c", "z"} ->
            <<Ion(m, <<t, Str(pos + 1), "[", "+", "]">>, pos + 1)>>
      [] OTHER -> <<>>

\* radical of each generator class.
radical_ions(t, m, pos) ==
    CASE t = "b" ->
            <<Ion(m, <<"[", "b", Str(pos + 1), "-", "H", "]", "[", "rad", "+", "]">>,
                  pos + 1)>>
      [] t = "a" ->
            <<Ion(m - FIXED_MASSES.H,
                  <<"[", "a", Str(pos + 1), "-", "H", "]", "[", "rad", "+", "]">>,
                  pos + 1),
              Ion(m + FIXED_MASSES.H,
                  <<"[", "a", Str(pos + 1), "+", "H", "]", "[", "rad", "+", "]">>,
                  pos + 1)>>
      [] t = "c" ->
            <<Ion(m + 2 * FIXED_MASSES.H,
                  <<"[", "c", Str(pos + 1), "+", "2", "H", "]", "[", "rad", "+", "]">>,
                  pos + 1)>>
      [] t = "z" ->
            <<Ion(m - FIXED_MASSES.H,
                  <<"[", "z", Str(pos + 1), "-", "H", "]", "[", "rad", "+", "]">>,
                  pos + 1)>>
      [] OTHER -> <<>>

\* The classes that override neutral_losses; the others inherit "return []".
HasNeutralLosses == {"b", "y", "a", "c", "z"}

\* neutral_losses of each generator class: FIXED_MASSES[nl] raises KeyError
\* for a name that is no key of FIXED_MASSES.
neutral_loss_ions(t, m, pos, names) ==
    IF t \notin HasNeutralLosses THEN Return(<<>>)
    ELSE IF \E i \in 1..Len(names) : ~is_key(names[i])
    THEN Raise("KeyError", <<>>)
    ELSE Return([i \in 1..Len(names) |->
                    Ion(m - FIXED_MASSES[names[i].name],
                        <<"[", t, Str(pos + 1), "-", names[i].name, "]",
                          "[", "+", "]">>,
                        pos + 1)])

\* The body of the loop "for pos, mass in enumerate(masses)" of
\* IonGenerator.generate (ion_generators.py:92-101).
fixed_pos_ions(t, ion_mass, pos, nls, rad, ctx) ==
    Then(IF nls.some THEN neutral_loss_ions(t, ion_mass, pos, nls.val)
         ELSE Return(<<>>),
         <<>>,
         LAMBDA nl :
            Return(base_ions(t, ion_mass, pos, ctx)
                   \o (IF rad THEN radical_ions(t, ion_mass, pos) ELSE <<>>)
                   \o nl))

pos_ions(t, raw, pos, nls, rad, ctx) ==
    fixed_pos_ions(t, fix_mass(t, raw), pos, nls, rad, ctx)

\* The loop from the 0-based index pos on: the singly charged ions, or the
\* first exception raised.
RECURSIVE positions_loop(_, _, _, _, _, _, _)
positions_loop(t, masses, pos, ions, nls, rad, ctx) ==
    IF pos >= Len(masses) THEN Return(ions)
    ELSE Then(pos_ions(t, masses[pos + 1], pos, nls, rad, ctx), <<>>,
              LAMBDA got :
                 positions_loop(t, masses, pos + 1, ions \o got, nls, rad, ctx))

singly_charged(t, masses, nls, rad, ctx) ==
    positions_loop(t, masses, 0, <<>>, nls, rad, ctx)

\* The charge levels of "for _charge in range(1, charge)": _charge + 1.
charge_levels(chg) == [i \in 1..(chg - 1) |-> i + 1]

\* all_ions of IonGenerator.generate (ion_generators.py:103-107).
charged_levels(ions, levels) ==
    Flatten([i \in 1..Len(levels) |-> _charge_ions(ions, levels[i])])

\* A faulty expansion that puts the charged ions first.
expand_charges_first(ions, chg) == charged_levels(ions, charge_levels(chg)) \o ions

expand_charges(ions, chg) == ions \o charged_levels(ions, charge_levels(chg))

\* IonGenerator.generate (ion_generators.py:61-107)
generate(t, masses, chg, nls, rad, ctx) ==
    Then(singly_charged(t, masses, nls, rad, ctx), <<>>,
         LAMBDA ions : Return(expand_charges(ions, chg)))

\* The neutral_losses each generate() passes on when the caller gave none.
default_losses(t, nls) ==
    IF nls.some THEN nls
    ELSE CASE t = "precursor" -> Losses(Names(<<"H2O", "NH3", "CO2">>))
           [] t = "imm"       -> Losses(<<>>)
           [] t = "b"         -> Losses(Names(<<"H2O", "NH3", "CO">>))
           [] t = "y"         -> Losses(Names(<<"NH3", "H2O">>))
           [] OTHER           -> nls

\* masses[:-1]
drop_last(s) == IF s = <<>> THEN <<>> ELSE SubSeq(s, 1, Len(s) - 1)

\* A faulty choice that truncates no series.
type_masses_whole(t, masses) == masses

\* A faulty choice that truncates every series, the one of z too.
type_masses_truncated(t, masses) == drop_last(masses)

\* The masses each generate() hands to the base class: b, y, a and c drop the
\* last one, z passes the series on whole.
type_masses(t, masses) ==
    IF t \in {"b", "y", "a", "c"} THEN drop_last(masses) ELSE masses

NoCtx == [sequence |-> <<>>, mod_sites |-> <<>>]

\* BIonGenerator, YIonGenerator, AIonGenerator, CIonGenerator and
\* ZIonGenerator.generate (ion_generators.py:268-419)
series_generate(t, masses, chg, nls, rad) ==
    generate(t, type_masses(t, masses), chg, default_losses(t, nls), rad, NoCtx)

\* self.mod_sites = [mod.site - 1 for mod in mods if isinstance(mod.site, int)]
sites_minus_one(ints) == [i \in 1..Len(ints) |-> ints[i].site.n - 1]

mod_sites(md) == sites_minus_one(SelectSeq(md, LAMBDA mod : mod.site.isint))

\* ImmoniumIonGenerator.generate (ion_generators.py:242-257); radical keeps
\* its default, False: Peptide._fragment does not pass it.
imm_generate(masses, chg, sq, md, nls) ==
    generate("imm", masses, chg, default_losses("imm", nls), FALSE,
             [sequence |-> sq, mod_sites |-> mod_sites(md)])

\* charge_symbol = f"{'•' if radical else ''}{cs if cs > 1 else ''}+"
charge_symbol(cs, rad) ==
    (IF rad THEN <<"rad">> ELSE <<>>) \o (IF cs > 1 THEN <<Str(cs)>> ELSE <<>>)
    \o <<"+">>

\* any(ms.mod == 'iTRAQ8plex' and ms.site in ["cterm", "nterm"] for ms in mods)
has_itraq(md) ==
    \E i \in 1..Len(md) :
        /\ md[i].mod = "iTRAQ8plex"
        /\ ~md[i].site.isint
        /\ md[i].site.s \in {CTERM, NTERM}

\* The ions of one charge level of PrecursorIonGenerator.generate
\* (ion_generators.py:210-229).
symbol_level(m, cs, seq_len, md, names, rad, sym) ==
    <<Ion(m \div cs + FIXED_MASSES.H,
          <<"[", "M", "+", "H", "]", "[">> \o sym \o <<"]">>, seq_len)>>
    \o (IF rad
        THEN <<Ion(m \div cs, <<"M", "[">> \o sym \o <<"]">>, seq_len)>>
        ELSE <<>>)
    \o [i \in 1..Len(names) |->
           Ion((m - FIXED_MASSES[names[i].name]) \div cs + FIXED_MASSES.H,
               <<"[", "M", "-", names[i].name, "]", "[">> \o sym \o <<"]">>,
               seq_len)]
    \o (IF has_itraq(md)
        THEN <<Ion((m - FIXED_MASSES.tag) \div cs + FIXED_MASSES.H,
                   <<"M", "-", "iT8", "[">> \o sym \o <<"]">>, seq_len)>>
        ELSE <<>>)

\* A faulty level that puts the precursor under the position-charge rule.
precursor_level_filtered(m, cs, seq_len, md, names, rad) ==
    IF seq_len >= 2 * cs - 1
    THEN symbol_level(m, cs, seq_len, md, names, rad, charge_symbol(cs, rad))
    ELSE <<>>

precursor_level(m, cs, seq_len, md, names, rad) ==
    symbol_level(m, cs, seq_len, md, names, rad, charge_symbol(cs, rad))

\* The loop over the charge levels with the neutral losses resolved.
precursor_levels(m, chg, seq_len, md, names, rad) ==
    IF chg >= 1 /\ \E i \in 1..Len(names) : ~is_key(names[i])
    THEN Raise("KeyError", <<>>)
    ELSE Return(Flatten([cs \in 1..chg |->
                            precursor_level(m, cs, seq_len, md, names, rad)]))

\* PrecursorIonGenerator.generate (ion_generators.py:189-231)
precursor_generate(m, chg, seq_len, md, nls, rad) ==
    precursor_levels(m, chg, seq_len, md, default_losses("precursor", nls).val, rad)

(***************************************************************************)
(* Peptide._fragment (pepfrag.py:246-286)                                  *)
(***************************************************************************)
\* One iteration of "for ion_type in ion_types": the ions of one entry
\* [type, nl] of the configuration.
\* The masses Peptide._fragment selects for a type: b_masses for b, a and c,
\* y_masses for y and z, None (<<>> here, told apart by the type) otherwise.
selected_masses(t, im) ==
    IF t \in {"b", "a", "c"} THEN im.b
    ELSE IF t \in {"y", "z"} THEN im.y
    ELSE <<>>

\* The branches of the loop body for a type that has a generator.
generator_ions(entry, m, pm, im, sq, chg, md, rad) ==
    IF entry.type = "precursor"
    THEN precursor_generate(m, chg, Len(sq), md, entry.nl, rad)
    ELSE IF entry.type = "imm"
    THEN imm_generate(pm.seq, chg, sq, md, entry.nl)
    ELSE IF entry.type \notin {"b", "a", "c", "y", "z"}
    THEN Raise("RuntimeError", <<>>)
    ELSE series_generate(entry.type, selected_masses(entry.type, im), chg,
                         entry.nl, rad)

\* A faulty loop body that passes over a type without a generator.
type_ions_skipping(entry, m, pm, im, sq, chg, md, rad) ==
    IF entry.type \notin TYPE_GENERATOR_MAP THEN Return(<<>>)
    ELSE generator_ions(entry, m, pm, im, sq, chg, md, rad)

\* IonGenerator.factory(ion_type) raises KeyError for a key that
\* TYPE_GENERATOR_MAP does not hold.
type_ions(entry, m, pm, im, sq, chg, md, rad) ==
    IF entry.type \notin TYPE_GENERATOR_MAP THEN Raise("KeyError", <<>>)
    ELSE generator_ions(entry, m, pm, im, sq, chg, md, rad)

RECURSIVE types_loop(_, _, _, _, _, _, _, _, _)
types_loop(cfg, ions, m, pm, im, sq, chg, md, rad) ==
    IF cfg = <<>> THEN Return(ions)
    ELSE Then(type_ions(Head(cfg), m, pm, im, sq, chg, md, rad), <<>>,
              LAMBDA got :
                 types_loop(Tail(cfg), ions \o got, m, pm, im, sq, chg, md, rad))

\* The loop of Peptide._fragment with mass and pep_mass computed.
fragment_types(m, pep_mass, sq, chg, md, rad, ion_types) ==
    types_loop(ion_types, <<>>, m, pep_mass, _ion_masses(pep_mass),
               sq, chg, md, rad)

_fragment(sq, chg, md, mt, rad, ion_types) ==
    Then(mass(sq, md, mt), <<>>,
         LAMBDA m :
            Then(peptide_mass(sq, md, mt), <<>>,
                 LAMBDA pep_mass :
                    fragment_types(m, pep_mass, sq, chg, md, rad, ion_types)))

(***************************************************************************)
(* Peptide: the cache and the public operations (pepfrag.py:40-244)        *)
(***************************************************************************)
NoneIons == [some |-> FALSE, val |-> <<>>]
SomeIons(ions) == [some |-> TRUE, val |-> ions]

\* A faulty clean_fragment_ions that leaves the cache as it is.
clean_keeps_cache == fragment_ions

\* Peptide.clean_fragment_ions (pepfrag.py:189-194): the value the cache
\* takes.
clean_fragment_ions == NoneIons

\* A faulty test that ignores force.
must_compute_ignoring_force(cache, force) == ~cache.some

\* "if self.fragment_ions is None or force" (pepfrag.py:240)
must_compute(cache, force) == ~cache.some \/ force

\* A faulty store that caches an empty list when the fragmentation raises.
cache_new_ions_partial(cache, got) ==
    IF got.err # "none"
    THEN [cache |-> SomeIons(<<>>), ret |-> <<>>, err |-> got.err, ran |-> TRUE]
    ELSE [cache |-> SomeIons(got.val), ret |-> got.val, err |-> "none", ran |-> TRUE]

\* Peptide.fragment (pepfrag.py:229-244): the cache after the call, the list
\* returned, the exception raised and whether _fragment ran.
\* "self.fragment_ions = self._fragment(ion_types)": an exception leaves the
\* cache as it was.
cache_new_ions(cache, got) ==
    IF got.err # "none"
    THEN [cache |-> cache, ret |-> <<>>, err |-> got.err, ran |-> TRUE]
    ELSE [cache |-> SomeIons(got.val), ret |-> got.val, err |-> "none", ran |-> TRUE]

fragment(cache, sq, chg, md, mt, rad, ion_types, force) ==
    IF must_compute(cache, force)
    THEN cache_new_ions(cache, _fragment(sq, chg, md, mt, rad, ion_types))
    ELSE [cache |-> cache, ret |-> cache.val, err |-> "none", ran |-> FALSE]

\* DEFAULT_IONS (pepfrag.py:21-29)
Entry(t, nls) == [type |-> t, nl |-> nls]

DEFAULT_IONS ==
    <<Entry("precursor", NoLosses), Entry("imm", NoLosses), Entry("b", NoLosses),
      Entry("y", NoLosses), Entry("a", NoLosses), Entry("c", NoLosses),
      Entry("z", NoLosses)>>

(***************************************************************************)
(* The inputs the callers draw from.                                       *)
(***************************************************************************)
\* Sequences of up to MaxLen residues, alternately A and K, with at most one
\* residue replaced by U, which is no key of AA_MASSES.
SequencesUpTo(len) ==
    {[i \in 1..n |-> IF i = u THEN "U" ELSE IF i % 2 = 1 THEN "A" ELSE "K"] :
        n \in 0..len, u \in 0..len}

Sequences == SequencesUpTo(MaxLen)

Charges == 1..MaxCharge

RECURSIVE ListsUpTo(_, _)
ListsUpTo(S, n) ==
    IF n = 0 THEN {<<>>}
    ELSE LET shorter == ListsUpTo(S, n - 1)
         IN  shorter \cup {Append(l, x) : l \in shorter, x \in S}

\* The modifications of the fragmentation runs.
ApiMods ==
    {ModSite(15995, IntSite(1), "Oxidation"),
     ModSite(304205, StrSite(NTERM), "iTRAQ8plex")}

ApiModLists == ListsUpTo(ApiMods, MaxMods)

\* The modifications of the mass runs: integer sites inside and outside the
\* sequence, and strings that are and are not spellings of a terminus.
MassMods ==
    {ModSite(15995, IntSite(1), "Oxidation"),
     ModSite(1000000, IntSite(100), "TestMod"),
     ModSite(2000, IntSite(0), "TestMod"),
     ModSite(4000, IntSite(-1), "TestMod"),
     ModSite(304205, StrSite(NTERM), "iTRAQ8plex"),
     ModSite(42011, StrSite(<<"N", "-", "t", "e", "r", "m">>), "Acetyl"),
     ModSite(21982, StrSite(CTERM), "Cation:Na"),
     ModSite(14016, StrSite(<<"C", "-", "T", "e", "r", "m">>), "Methyl"),
     ModSite(8000, StrSite(<<"f", "o", "o">>), "TestMod")}

MassModLists == ListsUpTo(MassMods, MaxMassMods)

\* The ion_types maps of the fragmentation runs.
Configs ==
    {<<Entry("b", NoLosses)>>,
     <<Entry("y", NoLosses)>>,
     <<Entry("z", Losses(Names(<<"NH3">>))), Entry("a", Losses(Names(<<"CO">>)))>>,
     <<Entry("imm", NoLosses), Entry("precursor", NoLosses), Entry("c", NoLosses)>>}

\* The right-hand side of a comparison: a Peptide, known by the fields
\* __eq__ reads, or an object of another class.
OtherPeptide(sq, chg, md) == [peptide |-> TRUE, seq |-> sq, charge |-> chg, mods |-> md]
NonPeptide == [peptide |-> FALSE, seq |-> <<>>, charge |-> 0, mods |-> <<>>]

NoArg == [ion_types |-> <<>>, force |-> FALSE, other |-> NonPeptide]
NoRet == [ions |-> <<>>, mass |-> 0, pm |-> NoPeptideMass, eq |-> FALSE]

\* The calls of one thread leave the other threads' calls alone; within one
\* call the fields of the shared immonium generator are written before they
\* are read, so the runs of a single thread do not follow them.
SingleThreaded == UNCHANGED <<generator, threads>>

(***************************************************************************)
(* The operations                                                          *)
(***************************************************************************)
\* The bookkeeping of an operation that returns nothing.
Assigned(name) ==
    /\ op' = name
    /\ arg' = NoArg
    /\ ret' = NoRet
    /\ err' = "none"
    /\ recomputed' = FALSE
    /\ old' = fragment_ions
    /\ SingleThreaded

\* Peptide.seq setter (pepfrag.py:80-87)
set_seq(s) ==
    /\ fragment_ions' = clean_fragment_ions
    /\ seq' = s
    /\ Assigned("set_seq")
    /\ UNCHANGED <<charge, mods, mass_type, radical>>

\* Peptide.charge setter (pepfrag.py:97-104)
set_charge(c) ==
    /\ fragment_ions' = clean_fragment_ions
    /\ charge' = c
    /\ Assigned("set_charge")
    /\ UNCHANGED <<seq, mods, mass_type, radical>>

\* Peptide.mods setter (pepfrag.py:114-121)
set_mods(m) ==
    /\ fragment_ions' = clean_fragment_ions
    /\ mods' = m
    /\ Assigned("set_mods")
    /\ UNCHANGED <<seq, charge, mass_type, radical>>

\* mass_type is a plain slot: an assignment touches nothing else.
set_mass_type(mt) ==
    /\ mass_type' = mt
    /\ Assigned("set_mass_type")
    /\ UNCHANGED <<seq, charge, mods, radical, fragment_ions>>

\* A faulty assignment that clears the cache as the property setters do.
set_radical_cleaning(r) ==
    /\ fragment_ions' = clean_fragment_ions
    /\ radical' = r
    /\ Assigned("set_radical")
    /\ UNCHANGED <<seq, charge, mods, mass_type>>

\* radical is a plain slot too.
set_radical(r) ==
    /\ radical' = r
    /\ Assigned("set_radical")
    /\ UNCHANGED <<seq, charge, mods, mass_type, fragment_ions>>

\* A call of Peptide.fragment(ion_types, force).
Fragmented(r, ion_types, force) ==
    /\ fragment_ions' = r.cache
    /\ op' = "fragment"
    /\ arg' = [NoArg EXCEPT !.ion_types = ion_types, !.force = force]
    /\ ret' = [NoRet EXCEPT !.ions = r.ret]
    /\ err' = r.err
    /\ recomputed' = r.ran
    /\ old' = fragment_ions
    /\ UNCHANGED pep
    /\ SingleThreaded

Fragment(ion_types, force) ==
    Fragmented(fragment(fragment_ions, seq, charge, mods, mass_type, radical,
                        ion_types, force), ion_types, force)

\* A read of the property Peptide.mass.
Returned(name, r, value) ==
    /\ op' = name
    /\ arg' = NoArg
    /\ ret' = value
    /\ err' = r.err
    /\ recomputed' = FALSE
    /\ old' = fragment_ions
    /\ UNCHANGED <<pep, fragment_ions>>
    /\ SingleThreaded

MassRead(r) == Returned("mass", r, [NoRet EXCEPT !.mass = r.val])

Mass == MassRead(mass(seq, mods, mass_type))

\* A call of Peptide.calculate_mass().
MassCalculated(r) == Returned("calculate_mass", r, [NoRet EXCEPT !.pm = r.val])

CalculateMass == MassCalculated(calculate_mass(seq, mods, mass_type))

\* Peptide.__init__ (pepfrag.py:51-70)
Constructed(sq, chg, md, mt, rad) ==
    /\ seq = sq
    /\ charge = chg
    /\ mods = md
    /\ mass_type = mt
    /\ radical = rad
    /\ fragment_ions = NoneIons
    /\ op = "init"
    /\ arg = NoArg
    /\ ret = NoRet
    /\ err = "none"
    /\ recomputed = FALSE
    /\ old = NoneIons
    /\ generator = NoCtx
    /\ threads = <<>>

\* Fragmentation runs: one Peptide, its setters and fragment().
Init ==
    \E sq \in Sequences, chg \in Charges, md \in ApiModLists :
        Constructed(sq, chg, md, "mono", FALSE)

Next ==
    \/ \E s \in Sequences : set_seq(s)
    \/ \E c \in Charges : set_charge(c)
    \/ \E m \in ApiModLists : set_mods(m)
    \/ \E mt \in MassType : set_mass_type(mt)
    \/ \E r \in BOOLEAN : set_radical(r)
    \/ \E c \in Configs, f \in BOOLEAN : Fragment(c, f)
    \/ Mass
    \/ CalculateMass

Spec == Init /\ [][Next]_vars

\* Mass runs: a Peptide with a richer choice of modifications, its mass and
\* its positional masses.
InitMass ==
    \E sq \in Sequences, md \in MassModLists, mt \in MassType :
        Constructed(sq, 1, md, mt, FALSE)

NextMass ==
    \/ \E s \in Sequences : set_seq(s)
    \/ \E m \in MassModLists : set_mods(m)
    \/ \E mt \in MassType : set_mass_type(mt)
    \/ Mass
    \/ CalculateMass

SpecMass == InitMass /\ [][NextMass]_vars

\* Generator runs: a newly constructed Peptide and its first fragment().
\* The modifications: on a residue, at either terminus, and iTRAQ8plex under
\* the spellings "nterm" and "N-term" and on a residue.
IonMods ==
    {ModSite(15995, IntSite(1), "Oxidation"),
     ModSite(304205, IntSite(1), "iTRAQ8plex"),
     ModSite(304205, StrSite(NTERM), "iTRAQ8plex"),
     ModSite(304205, StrSite(<<"N", "-", "t", "e", "r", "m">>), "iTRAQ8plex"),
     ModSite(21982, StrSite(CTERM), "Cation:Na")}

IonModLists == ListsUpTo(IonMods, MaxIonMods)

IonSequences == SequencesUpTo(MaxIonLen)

\* A type alone with neutral_losses=[].
Alone(t) == <<Entry(t, Losses(<<>>))>>

\* A type alone with a neutral loss that is no key of FIXED_MASSES.
WithUnknownLoss(t) == <<Entry(t, Losses(Names(<<"foo">>)))>>

\* A type alone with a neutral loss given as a (name, mass) tuple.
WithPairLoss(t) == <<Entry(t, Losses(<<Pair("HPO3", 79966)>>))>>

\* A type alone with the neutral loss of water.
WithWaterLoss(t) == <<Entry(t, Losses(Names(<<"H2O">>)))>>

\* The ion_types maps of the generator runs; "x" is no member of IonType
\* and no key of TYPE_GENERATOR_MAP; the empty sequence is the map {}.
IonConfigs ==
    {Alone(t) : t \in {"a", "b", "c", "y"}}
    \cup {WithUnknownLoss(t) : t \in IonType}
    \cup {WithPairLoss(t) : t \in {"b", "precursor"}}
    \cup {<<Entry("z", NoLosses)>>,
          <<Entry("precursor", NoLosses)>>,
          <<Entry("b", NoLosses), Entry("a", NoLosses)>>,
          <<Entry("y", NoLosses), Entry("imm", NoLosses), Entry("b", NoLosses)>>,
          <<Entry("x", NoLosses)>>,
          <<Entry("b", NoLosses), Entry("x", NoLosses)>>,
          WithWaterLoss("imm"),
          <<>>,
          DEFAULT_IONS}

InitIons ==
    \E sq \in IonSequences, chg \in Charges, md \in IonModLists,
       mt \in MassType, rad \in BOOLEAN :
        Constructed(sq, chg, md, mt, rad)

\* The first call on the newly constructed Peptide, a fragment(): the cache
\* is still None.
FirstFragment(ion_types) == op = "init" /\ Fragment(ion_types, FALSE)

NextIons == \E c \in IonConfigs : FirstFragment(c)

SpecIons == InitIons /\ [][NextIons]_vars

\* Peptide.__hash__ (pepfrag.py:172-177): the hash of the tuple (seq, charge),
\* known by the tuple it is taken of.
__hash__(sq, chg) == <<sq, chg>>

\* Peptide.__eq__ (pepfrag.py:179-187)
__eq__(sq, chg, md, other) ==
    IF ~other.peptide THEN Raise("NotImplementedError", FALSE)
    ELSE Return(<<sq, chg, md>> = <<other.seq, other.charge, other.mods>>)

\* A comparison "peptide == other".
Compared(r, other) ==
    /\ op' = "eq"
    /\ arg' = [NoArg EXCEPT !.other = other]
    /\ ret' = [NoRet EXCEPT !.eq = r.val]
    /\ err' = r.err
    /\ recomputed' = FALSE
    /\ old' = fragment_ions
    /\ UNCHANGED <<pep, fragment_ions>>
    /\ SingleThreaded

Equals(other) == Compared(__eq__(seq, charge, mods, other), other)

\* "self._mods = mods" (pepfrag.py:121) keeps the caller's list itself, no
\* copy of it: when the caller changes its list in place to the content m,
\* Peptide._mods is the changed list, and no setter has run.
CallerMutates(m) ==
    /\ m # mods
    /\ mods' = m
    /\ Assigned("mutate")
    /\ UNCHANGED <<seq, charge, mass_type, radical, fragment_ions>>

\* Call runs: one Peptide, its comparisons, its caller's list and fragment()
\* calls that raise. The modifications: on a residue, and at a site that is
\* no spelling of a terminus.
CallMods ==
    {ModSite(15995, IntSite(1), "Oxidation"),
     ModSite(8000, StrSite(<<"f", "o", "o">>), "TestMod")}

CallModLists == ListsUpTo(CallMods, MaxMods)

\* The ion_types maps of the call runs: b alone, b with a neutral loss that
\* is no key of FIXED_MASSES, and b before a key without a generator.
CallConfigs ==
    {<<Entry("b", NoLosses)>>,
     WithUnknownLoss("b"),
     <<Entry("b", NoLosses), Entry("x", NoLosses)>>}

Others ==
    {NonPeptide}
    \cup {OtherPeptide(sq, chg, md) :
              sq \in Sequences, chg \in Charges, md \in CallModLists}

InitCalls ==
    \E sq \in Sequences, chg \in Charges, md \in CallModLists :
        Constructed(sq, chg, md, "mono", FALSE)

NextCalls ==
    \/ \E s \in Sequences : set_seq(s)
    \/ \E m \in CallModLists : set_mods(m)
    \/ \E m \in CallModLists : CallerMutates(m)
    \/ \E other \in Others : Equals(other)
    \/ \E c \in CallConfigs, f \in BOOLEAN : Fragment(c, f)

SpecCalls == InitCalls /\ [][NextCalls]_vars

\* Thread runs: two threads, each with a Peptide of its own at charge 1, each
\* calling fragment({IonType.imm: {}}). Both calls get from
\* TYPE_GENERATOR_MAP the one ImmoniumIonGenerator instance
\* (ion_generators.py:438), and Python may switch threads between any two
\* statements of ImmoniumIonGenerator.generate.
Threads == {1, 2}

ThreadSequences ==
    {[i \in 1..n |-> IF (i + k) % 2 = 1 THEN "A" ELSE "K"] :
        n \in 1..MaxLen, k \in 0..1}

ThreadModLists == ListsUpTo({ModSite(15995, IntSite(1), "Oxidation")}, MaxMods)

\* A thread about to call fragment() on its Peptide(sq, 1, md).
Called(sq, md) ==
    [seq |-> sq, mods |-> md, pc |-> "call", pos |-> 0, ions |-> <<>>]

\* self.mass.seq of the thread's Peptide: local to the call.
thread_masses(th) == calculate_mass(th.seq, th.mods, "mono").val.seq

InitThreads ==
    /\ seq = <<>>
    /\ charge = 1
    /\ mods = <<>>
    /\ mass_type = "mono"
    /\ radical = FALSE
    /\ fragment_ions = NoneIons
    /\ op = "init"
    /\ arg = NoArg
    /\ ret = NoRet
    /\ err = "none"
    /\ recomputed = FALSE
    /\ old = NoneIons
    /\ generator = NoCtx
    /\ threads \in [Threads -> {Called(sq, md) : sq \in ThreadSequences,
                                                 md \in ThreadModLists}]

\* The thread t moves on to the state th.
Stepped(t, th) ==
    /\ threads' = [threads EXCEPT ![t] = th]
    /\ UNCHANGED <<pep, fragment_ions, op, arg, ret, err, recomputed, old>>

\* "self.sequence = sequence" (ion_generators.py:253)
SetSequence(t) ==
    /\ threads[t].pc = "call"
    /\ generator' = [generator EXCEPT !.sequence = threads[t].seq]
    /\ Stepped(t, [threads[t] EXCEPT !.pc = "sequence"])

\* "self.mod_sites = [...]" (ion_generators.py:254-255)
SetModSites(t) ==
    /\ threads[t].pc = "sequence"
    /\ generator' = [generator EXCEPT !.mod_sites = mod_sites(threads[t].mods)]
    /\ Stepped(t, [threads[t] EXCEPT !.pc = "loop"])

\* One round of the loop of IonGenerator.generate (ion_generators.py:92-101):
\* base_ions reads self.sequence[pos] and self.mod_sites as they are now, and
\* self.sequence[pos] raises IndexError past the end of the string.
LoopStep(t) ==
    /\ threads[t].pc = "loop"
    /\ threads[t].pos < Len(thread_masses(threads[t]))
    /\ UNCHANGED generator
    /\ IF threads[t].pos >= Len(generator.sequence)
       THEN Stepped(t, [threads[t] EXCEPT !.pc = "IndexError"])
       ELSE Stepped(t, [threads[t] EXCEPT
                !.ions = @ \o pos_ions("imm",
                                       thread_masses(threads[t])[threads[t].pos + 1],
                                       threads[t].pos, Losses(<<>>), FALSE,
                                       generator).val,
                !.pos = @ + 1])

\* The end of the loop, the charge expansion (ion_generators.py:103-107) and
\* the return of the list.
LoopEnd(t) ==
    /\ threads[t].pc = "loop"
    /\ threads[t].pos >= Len(thread_masses(threads[t]))
    /\ UNCHANGED generator
    /\ Stepped(t, [threads[t] EXCEPT !.pc = "returned",
                                     !.ions = expand_charges(@, 1)])

NextThreads ==
    \E t \in Threads :
        \/ SetSequence(t)
        \/ SetModSites(t)
        \/ LoopStep(t)
        \/ LoopEnd(t)

SpecThreads == InitThreads /\ [][NextThreads]_vars

(***************************************************************************)
(* Properties of the cache                                                 *)
(***************************************************************************)
Setters == {"set_seq", "set_charge", "set_mods"}

\* What the peptide's current fields fragment to under ion_types.
Recomputation(ion_types) ==
    _fragment(seq, charge, mods, mass_type, radical, ion_types)

\* The last call returned and cached exactly the outcome r of a recomputation.
ReturnedFresh(r) ==
    /\ recomputed
    /\ err = r.err
    /\ err = "none" => /\ ret.ions = r.val
                       /\ fragment_ions = SomeIons(r.val)

\* The step is a call that returns and caches exactly the outcome r of a
\* recomputation.
ReturnsFresh(r) ==
    /\ recomputed'
    /\ err' = r.err
    /\ err' = "none" => /\ ret'.ions = r.val
                        /\ fragment_ions' = SomeIons(r.val)

\* C1: an assignment to seq, charge or mods on a populated cache empties the
\* cache, and the non-forced fragment() call that follows such an assignment
\* runs _fragment on the current seq, charge and mods and returns its result.
C1_SettersInvalidate ==
    [][/\ (fragment_ions.some /\ op' \in Setters) => ~fragment_ions'.some
       /\ (op \in Setters /\ op' = "fragment" /\ ~arg'.force)
              => /\ ~fragment_ions.some
                 /\ ReturnsFresh(_fragment(seq', charge', mods', mass_type',
                                           radical', arg'.ion_types))]_vars

\* A setter has just emptied a populated cache.
C1_Witness == op \in Setters /\ old.some /\ ~fragment_ions.some

\* The ion type a label names: the letter that opens it, M for the precursor.
IonTypeOf(label) ==
    IF label[1] = "M" \/ (label[1] = "[" /\ label[2] = "M") THEN "precursor"
    ELSE IF label[1] = "[" THEN label[2]
    ELSE label[1]

RequestedTypes(ion_types) == {ion_types[i].type : i \in 1..Len(ion_types)}

\* C2: the list fragment(ion_types=C) returns holds only ions of the types
\* that are keys of C, whatever the earlier calls on the Peptide were.
C2_OnlyRequestedTypes ==
    (op = "fragment" /\ err = "none")
        => \A i \in 1..Len(ret.ions) :
              IonTypeOf(ret.ions[i].label) \in RequestedTypes(arg.ion_types)

\* C3: two successive fragment() calls with the same ion_types and nothing
\* assigned in between return the same list.
C3_RepeatedFragmentationAgrees ==
    [][(/\ op = "fragment" /\ err = "none"
        /\ op' = "fragment" /\ err' = "none"
        /\ arg'.ion_types = arg.ion_types
        /\ pep' = pep)
           => ret'.ions = ret.ions]_vars

\* C4: a forced call runs _fragment on the current fields and the ion_types
\* of the call and stores the new list in the place of whatever was cached;
\* a call that is not forced and finds a populated cache runs nothing and
\* returns the cached list.
C4_ForceRecomputes ==
    op = "fragment"
        => /\ arg.force => ReturnedFresh(Recomputation(arg.ion_types))
           /\ (~arg.force /\ old.some)
                  => /\ ~recomputed
                     /\ err = "none"
                     /\ fragment_ions = old
                     /\ ret.ions = old.val

\* A forced call has replaced a cached list by a different one.
C4_Witness ==
    /\ op = "fragment" /\ arg.force /\ err = "none"
    /\ old.some /\ fragment_ions.some /\ fragment_ions # old

(***************************************************************************)
(* Properties of the charge expansion                                      *)
(***************************************************************************)
\* The charge a label states: c for a label that ends in "c+]", 1 otherwise.
ChargeOf(label) ==
    IF /\ Len(label) >= 3
       /\ label[Len(label)] = "]"
       /\ label[Len(label) - 1] = "+"
       /\ \E c \in 2..MaxCharge : Str(c) = label[Len(label) - 2]
    THEN CHOOSE c \in 2..MaxCharge : Str(c) = label[Len(label) - 2]
    ELSE 1

\* The ions of the template-generated types, and those of one charge.
TemplateIons(ions) ==
    SelectSeq(ions, LAMBDA ion : IonTypeOf(ion.label) # "precursor")

AtCharge(ions, c) == SelectSeq(ions, LAMBDA ion : ChargeOf(ion.label) = c)

\* The charge-c ions are the singly charged ions of position >= 2c - 1, in
\* their order, each at mass (mass + (c - 1) H) / c and at its position.
ExpandedFrom(at_c, singly, c) ==
    /\ Len(at_c) = Len(singly)
    /\ \A i \in 1..Len(at_c) :
          /\ at_c[i].mass = (singly[i].mass + (c - 1) * FIXED_MASSES.H) \div c
          /\ at_c[i].pos = singly[i].pos

ChargeRule(ions, chg) ==
    /\ \A c \in 2..chg :
          ExpandedFrom(AtCharge(ions, c),
                       SelectSeq(AtCharge(ions, 1),
                                 LAMBDA ion : ion.pos >= 2 * c - 1), c)
    /\ \A i \in 1..Len(ions) :
          /\ ChargeOf(ions[i].label) <= chg
          /\ ChargeOf(ions[i].label) >= 2
                => ions[i].pos >= 2 * ChargeOf(ions[i].label) - 1

\* C5: in the ions of the template-generated types, for every charge c from
\* 2 to the peptide's charge, the charge-c ions are exactly the singly
\* charged ions of position >= 2c - 1, at mass (mass + (c - 1) H) / c and the
\* same position; no ion of a smaller position appears at charge c.
C5_ChargeFilter ==
    (op = "fragment" /\ err = "none")
        => ChargeRule(TemplateIons(ret.ions), charge)

\* A fragmentation has charged one ion and dropped another for its position.
C5_Witness ==
    /\ op = "fragment" /\ err = "none" /\ recomputed /\ charge >= 2
    /\ \E i \in 1..Len(ret.ions) : ChargeOf(ret.ions[i].label) = 2
    /\ \E i \in 1..Len(ret.ions) :
          /\ ChargeOf(ret.ions[i].label) = 1
          /\ ret.ions[i].pos \in 1..2

(***************************************************************************)
(* Properties of the mass model                                            *)
(***************************************************************************)
\* An integer site that is no position 1..n of the sequence.
OutOfRange(mod, n) == mod.site.isint /\ (mod.site.n < 1 \/ mod.site.n > n)

\* The list md without its i-th entry.
Without(md, i) == SubSeq(md, 1, i - 1) \o SubSeq(md, i + 1, Len(md))

\* The last call ended as r: the same exception, or the same value.
EndedAs(r, value) == err = r.err /\ (err = "none" => value = r.val)

\* C6: a modification whose integer site lies outside 1..len(seq) raises no
\* error and adds no mass: the positional masses and the total mass are
\* those of the peptide without that modification.
C6_OutOfRangeSiteIgnored ==
    \A i \in 1..Len(mods) :
        OutOfRange(mods[i], Len(seq))
            => /\ op = "calculate_mass"
                    => EndedAs(calculate_mass(seq, Without(mods, i), mass_type),
                               ret.pm)
               /\ op = "mass"
                    => EndedAs(mass(seq, Without(mods, i), mass_type), ret.mass)

\* The positional mass array of a PeptideMass: the N-terminal delta, the
\* residues, the C-terminal delta.
Slot(term) == IF term = None THEN 0 ELSE term[1]

PositionalArray(pm) == <<Slot(pm.nterm)>> \o pm.seq \o <<Slot(pm.cterm)>>

\* C7: Peptide.mass is the sum of every entry of the positional mass array
\* (N-terminal delta, residues with their modifications, C-terminal delta)
\* plus the mass of water.
C7_MassIsSumOfAllEntries ==
    (op = "mass" /\ err = "none")
        => ret.mass = sum(PositionalArray(calculate_mass(seq, mods, mass_type).val))
                      + FIXED_MASSES.H2O

\* The string sites that spell the terminus term (NTERM or CTERM).
Spells(mod, term) == ~mod.site.isint /\ normalize_site(mod.site.s) = term

IsTerminus(mod) == Spells(mod, NTERM) \/ Spells(mod, CTERM)

\* The sum of the masses of the modifications of md at terminus term.
RECURSIVE TerminalSum(_, _)
TerminalSum(md, term) ==
    IF md = <<>> THEN 0
    ELSE (IF Spells(Head(md), term) THEN Head(md).mass ELSE 0)
         + TerminalSum(Tail(md), term)

\* C8: the terminal slot holds the sum of the masses of all the
\* modifications at that terminus, in whatever order they are listed.
C8_TerminalModsAccumulate ==
    (op = "calculate_mass" /\ err = "none")
        => /\ Slot(ret.pm.nterm) = TerminalSum(mods, NTERM)
           /\ Slot(ret.pm.cterm) = TerminalSum(mods, CTERM)

\* C10: a string site that normalises to "nterm" or "cterm" is taken as
\* that terminus; with any other string site among the modifications the
\* calculation raises UnknownModificationSite and returns no mass array.
C10_StringSites ==
    op = "calculate_mass"
        => IF \E i \in 1..Len(mods) : ~mods[i].site.isint /\ ~IsTerminus(mods[i])
           THEN err = "UnknownModificationSite" /\ ret = NoRet
           ELSE /\ err # "UnknownModificationSite"
                /\ err = "none"
                      => /\ (\E i \in 1..Len(mods) : Spells(mods[i], NTERM))
                              <=> ret.pm.nterm # None
                         /\ (\E i \in 1..Len(mods) : Spells(mods[i], CTERM))
                              <=> ret.pm.cterm # None

(***************************************************************************)
(* Properties of the errors                                                *)
(***************************************************************************)
HasUnknownResidue == \E i \in 1..Len(seq) : seq[i] \notin DOMAIN AA_MASSES

\* C9: with a residue in the sequence that is no key of AA_MASSES, a read of
\* the mass, a calculate_mass() and a fragment() each raise, and return
\* neither a mass nor an ion list.
C9_UnknownResidueRaises ==
    (HasUnknownResidue /\ op \in {"mass", "calculate_mass", "fragment"})
        => err # "none" /\ ret = NoRet

\* A fragment() of a sequence with an unknown residue has raised KeyError.
C9_Witness == HasUnknownResidue /\ op = "fragment" /\ err = "KeyError"

(***************************************************************************)
(* Properties of the neutral losses                                        *)
(***************************************************************************)
\* Some neutral_losses list of the map names a str that is no key of
\* FIXED_MASSES.
HasUnknownLoss(ion_types) ==
    \E e \in 1..Len(ion_types) :
        \E i \in 1..Len(ion_types[e].nl.val) :
            /\ ~ion_types[e].nl.val[i].pair
            /\ ion_types[e].nl.val[i].name \notin DOMAIN FIXED_MASSES

\* C11: a fragmentation that requests a type, whichever it is, with a
\* neutral-loss name that is no key of FIXED_MASSES raises and returns no
\* list.
C11_UnknownLossRaises ==
    (op = "fragment" /\ recomputed /\ HasUnknownLoss(arg.ion_types))
        => err # "none" /\ ret = NoRet

\* The positional masses and the mass of the peptide as it is.
PepMass == calculate_mass(seq, mods, mass_type).val

TotalMass == mass(seq, mods, mass_type).val

MassOk == mass(seq, mods, mass_type).err = "none"

\* The ion of the loss (name, lost) at the 1-based position pos of the b
\* series, and the one of the precursor at charge 1.
BLossIon(pos, name, lost) ==
    Ion(fix_mass("b", _ion_masses(PepMass).b[pos]) - lost,
        <<"[", "b", Str(pos), "-", name, "]", "[", "+", "]">>, pos)

PrecursorLossIon(name, lost) ==
    Ion((TotalMass - lost) + FIXED_MASSES.H,
        <<"[", "M", "-", name, "]", "[">> \o charge_symbol(1, radical) \o <<"]">>,
        Len(seq))

\* C12: a neutral loss given as a (name, mass) pair is accepted: the b
\* generator emits at every position the ion of the b mass less the supplied
\* mass, labelled [b<pos>-<name>][+], and the precursor generator the ion
\* [M-<name>][+].
C12_PairLossAccepted ==
    (op = "fragment" /\ recomputed /\ MassOk)
        => /\ arg.ion_types = WithPairLoss("b")
                => /\ err = "none"
                   /\ \A pos \in 1..(Len(seq) - 1) :
                         BLossIon(pos, "HPO3", 79966) \in Range(ret.ions)
           /\ arg.ion_types = WithPairLoss("precursor")
                => /\ err = "none"
                   /\ PrecursorLossIon("HPO3", 79966) \in Range(ret.ions)

(***************************************************************************)
(* Properties of the series                                                *)
(***************************************************************************)
\* The label of the base ion of type t at the 1-based position pos.
BaseLabel(t, pos) == <<t, Str(pos), "[", "+", "]">>

\* The peptide of the call: no modification, charge 1, the radical flag not
\* set, and at least one residue, all of them keys of AA_MASSES.
PlainPeptide ==
    /\ mods = <<>> /\ charge = 1 /\ ~radical
    /\ Len(seq) >= 1 /\ ~HasUnknownResidue

HasBaseIon(ions, t, pos) ==
    \E i \in 1..Len(ions) : ions[i].label = BaseLabel(t, pos) /\ ions[i].pos = pos

XMass(pos) ==
    _ion_masses(PepMass).y[pos] + FIXED_MASSES.CO - 2 * FIXED_MASSES.H

\* C15: x is a supported type: a fragmentation that requests x ions succeeds
\* and yields at each position the ion x<pos>[+] at the y-series mass plus CO
\* less two H.
C15_XIonsSupported ==
    (/\ op = "fragment" /\ recomputed /\ MassOk
     /\ arg.ion_types = <<Entry("x", NoLosses)>>)
        => /\ err = "none"
           /\ \A pos \in 1..Len(seq) :
                 Ion(XMass(pos), BaseLabel("x", pos), pos) \in Range(ret.ions)

(***************************************************************************)
(* Properties of the precursor ions                                        *)
(***************************************************************************)
\* A modification named iTRAQ8plex at a site the mass model takes as a
\* terminus.
HasTerminalItraq ==
    \E i \in 1..Len(mods) : mods[i].mod = "iTRAQ8plex" /\ IsTerminus(mods[i])

\* The label of a precursor ion: the stem and the charge symbol in brackets.
PrecursorLabel(stem, cs) == stem \o <<"[">> \o charge_symbol(cs, radical) \o <<"]">>

ItraqIon(cs) ==
    Ion((TotalMass - FIXED_MASSES.tag) \div cs + FIXED_MASSES.H,
        PrecursorLabel(<<"M", "-", "iT8">>, cs), Len(seq))

IsItraqLabel(label) == Len(label) >= 3 /\ SubSeq(label, 1, 3) = <<"M", "-", "iT8">>

\* C16: with a modification named iTRAQ8plex at a terminus, under any
\* spelling of the site that the mass model accepts, the precursor generator
\* emits M-iT8[symbol] at (mass - tag) / cs + H for every cs in 1..charge;
\* with none it emits no M-iT8 ion.
C16_ItraqAtAnyTerminusSpelling ==
    (/\ op = "fragment" /\ recomputed /\ err = "none"
     /\ "precursor" \in RequestedTypes(arg.ion_types))
        => IF HasTerminalItraq
           THEN \A cs \in 1..charge : ItraqIon(cs) \in Range(ret.ions)
           ELSE \A i \in 1..Len(ret.ions) : ~IsItraqLabel(ret.ions[i].label)

MHIon(cs) ==
    Ion(TotalMass \div cs + FIXED_MASSES.H,
        PrecursorLabel(<<"[", "M", "+", "H", "]">>, cs), Len(seq))

IsMHLabel(label) ==
    Len(label) >= 5 /\ SubSeq(label, 1, 5) = <<"[", "M", "+", "H", "]">>

\* C17: the precursor generator emits exactly one [M+H] ion for every charge
\* level cs in 1..charge, at mass / cs + H and at the position len(seq), and
\* no other [M+H] ion, whatever the length of the sequence.
C17_PrecursorEveryCharge ==
    (/\ op = "fragment" /\ recomputed /\ err = "none"
     /\ "precursor" \in RequestedTypes(arg.ion_types))
        => /\ \A cs \in 1..charge :
                 Cardinality({i \in 1..Len(ret.ions) : ret.ions[i] = MHIon(cs)}) = 1
           /\ Cardinality({i \in 1..Len(ret.ions) : IsMHLabel(ret.ions[i].label)})
                 = charge

\* A precursor of charge 2 has been emitted for a sequence shorter than
\* 2 * 2 - 1 residues.
C17_Witness ==
    /\ op = "fragment" /\ recomputed /\ err = "none"
    /\ "precursor" \in RequestedTypes(arg.ion_types)
    /\ charge = 2 /\ Len(seq) < 3
    /\ MHIon(2) \in Range(ret.ions)

(***************************************************************************)
(* Properties of the order and of the masses                               *)
(***************************************************************************)
\* The place of the type t among the keys of the map, in insertion order.
TypeIndex(t, ion_types) ==
    CHOOSE e \in 1..Len(ion_types) :
        /\ ion_types[e].type = t
        /\ \A d \in 1..(e - 1) : ion_types[d].type # t

\* Types follow the insertion order of the map, each type in one block; in
\* the block of a template-generated type the charges ascend, and within
\* one charge the positions ascend.
Ordered(ions, ion_types) ==
    \A i, j \in 1..Len(ions) :
        i < j =>
            LET ti == IonTypeOf(ions[i].label)
                tj == IonTypeOf(ions[j].label)
            IN  /\ ti \in RequestedTypes(ion_types)
                /\ tj \in RequestedTypes(ion_types)
                /\ TypeIndex(ti, ion_types) <= TypeIndex(tj, ion_types)
                /\ (ti = tj /\ ti # "precursor")
                       => /\ ChargeOf(ions[i].label) <= ChargeOf(ions[j].label)
                          /\ ChargeOf(ions[i].label) = ChargeOf(ions[j].label)
                                 => ions[i].pos <= ions[j].pos

\* C18: the list a fragmentation returns is ordered: the types in the
\* insertion order of the map, each contiguous; within a template-generated
\* type the singly charged ions first by ascending position, then the ions
\* of charge 2, 3, ..., each charge by ascending position.
C18_Ordered ==
    (op = "fragment" /\ recomputed /\ err = "none")
        => Ordered(ret.ions, arg.ion_types)

\* A list of three types has been returned that holds y ions of charge 1 at
\* two positions, a y ion of charge 2 and b ions.
C18_Witness ==
    /\ op = "fragment" /\ recomputed /\ err = "none"
    /\ Len(arg.ion_types) = 3 /\ charge = 2 /\ Len(seq) = 4
    /\ \E i, j, k \in 1..Len(ret.ions) :
          /\ ret.ions[i].label = BaseLabel("y", 1)
          /\ ret.ions[j].label = BaseLabel("y", 3)
          /\ IonTypeOf(ret.ions[k].label) = "y" /\ ChargeOf(ret.ions[k].label) = 2
    /\ \E i \in 1..Len(ret.ions) : IonTypeOf(ret.ions[i].label) = "b"

\* C19: at every position that the two series share, the base ion a<p>[+]
\* weighs the base ion b<p>[+] less CO.
C19_AIsBLessCO ==
    (op = "fragment" /\ err = "none")
        => \A i, j \in 1..Len(ret.ions) :
              \A p \in 1..Len(seq) :
                  (/\ ret.ions[i].label = BaseLabel("a", p)
                   /\ ret.ions[j].label = BaseLabel("b", p))
                      => ret.ions[i].mass = ret.ions[j].mass - FIXED_MASSES.CO

\* The a and b ions of a modified peptide have been returned at average
\* masses.
C19_Witness ==
    /\ op = "fragment" /\ err = "none" /\ mods # <<>> /\ mass_type = "avg"
    /\ \E i, j \in 1..Len(ret.ions) :
          /\ ret.ions[i].label = BaseLabel("a", 2)
          /\ ret.ions[j].label = BaseLabel("b", 2)

(***************************************************************************)
(* Properties of the ion types                                             *)
(***************************************************************************)
\* The map holds a key for which TYPE_GENERATOR_MAP has no generator.
HasUnregisteredType(ion_types) ==
    \E e \in 1..Len(ion_types) : ion_types[e].type \notin TYPE_GENERATOR_MAP

PrecursorLossesKnown(ion_types) ==
    \A e \in 1..Len(ion_types) :
        ion_types[e].type = "precursor"
            => \A i \in 1..Len(ion_types[e].nl.val) : is_key(ion_types[e].nl.val[i])

\* C21: fragmenting a peptide with an empty sequence and no modification
\* raises no error, whatever registered types are requested and whatever the
\* charge: the a, b, c, y, z and immonium generators yield no ion, so every
\* ion returned is a precursor ion.
C21_EmptySequence ==
    (/\ op = "fragment" /\ recomputed
     /\ seq = <<>> /\ mods = <<>>
     /\ ~HasUnregisteredType(arg.ion_types)
     /\ PrecursorLossesKnown(arg.ion_types))
        => /\ err = "none"
           /\ \A k \in 1..Len(ret.ions) :
                 IonTypeOf(ret.ions[k].label) = "precursor"
           /\ "precursor" \notin RequestedTypes(arg.ion_types) => ret.ions = <<>>

\* The default map on the empty peptide at charge 2 has returned the four
\* precursor ions at each of the two charges.
C21_Witness ==
    /\ op = "fragment" /\ recomputed /\ err = "none"
    /\ seq = <<>> /\ mods = <<>> /\ charge = 2
    /\ arg.ion_types = DEFAULT_IONS
    /\ Len(ret.ions) = 8


(***************************************************************************)
(* Properties of the immonium ions                                         *)
(***************************************************************************)
\* The immonium ions of the list that state the position pos.
ImmoniumAt(pos) ==
    SelectSeq(ret.ions, LAMBDA ion : IonTypeOf(ion.label) = "imm" /\ ion.pos = pos)

\* C22: immonium ions requested with a neutral loss: every residue index i
\* has a loss ion that carries the position i, and it has a variant at the
\* charge c exactly when i >= 2c - 1.
C22_ImmoniumLossIons ==
    (op = "fragment" /\ recomputed /\ err = "none"
     /\ arg.ion_types = WithWaterLoss("imm"))
        => \A i \in 1..Len(seq) :
              /\ \E k \in 1..Len(ImmoniumAt(i)) :
                    "H2O" \in Range(ImmoniumAt(i)[k].label)
              /\ \A c \in 2..charge :
                    i >= 2 * c - 1
                        <=> \E k \in 1..Len(ImmoniumAt(i)) :
                               ChargeOf(ImmoniumAt(i)[k].label) = c


(***************************************************************************)
(* Properties of the ion_types argument                                    *)
(***************************************************************************)
\* C25: fragment() called with the empty map ends as a call with the default
\* map does: the same exception, or the same list.
C25_EmptyMapIsDefault ==
    (op = "fragment" /\ recomputed /\ arg.ion_types = <<>>)
        => EndedAs(Recomputation(DEFAULT_IONS), ret.ions)


(***************************************************************************)
(* Properties of the raw series                                            *)
(***************************************************************************)
\* The raw b and y series of the peptide as it is.
BSeries == _ion_masses(PepMass).b

YSeries == _ion_masses(PepMass).y

\* C28: the raw series are complementary: the b mass at i plus the y mass at
\* N - i is the mass of the peptide, for every i in 1..N-1, with or without
\* terminal modifications.
C28_Complementary ==
    (op = "fragment" /\ recomputed /\ MassOk)
        => \A i \in 1..(Len(seq) - 1) :
              BSeries[i] + YSeries[Len(seq) - i] = TotalMass


(***************************************************************************)
(* Properties of the charged labels                                        *)
(***************************************************************************)
\* The label with its final "+]" turned into "c+]" and nothing else changed.
FinalPlusCharged(label, c) ==
    SubSeq(label, 1, Len(label) - 2) \o <<Str(c), "+", "]">>

\* The singly charged ions of the list that the template generators made.
SinglyCharged ==
    SelectSeq(ret.ions, LAMBDA ion : /\ IonTypeOf(ion.label) \notin {"precursor", "imm"}
                                     /\ ChargeOf(ion.label) = 1)

\* C29: the charge expansion changes only the final "+]" of a label: every
\* singly charged ion of position >= 2c - 1 has at the charge c the ion whose
\* label is its own with the final "+]" replaced by "c+]", radical a and c
\* ions with "+H" and "+2H" in their labels included.
C29_OnlyFinalPlusChanges ==
    (op = "fragment" /\ recomputed /\ err = "none")
        => \A k \in 1..Len(SinglyCharged), c \in 2..charge :
              SinglyCharged[k].pos >= 2 * c - 1
                  => \E j \in 1..Len(ret.ions) :
                        /\ ret.ions[j].label = FinalPlusCharged(SinglyCharged[k].label, c)
                        /\ ret.ions[j].pos = SinglyCharged[k].pos


(***************************************************************************)
(* Properties of the plain slots                                           *)
(***************************************************************************)
PlainSlots == {"set_radical", "set_mass_type"}

\* C27: an assignment to radical or to mass_type leaves the cache as it was,
\* and the next non-forced fragment() on a populated cache returns the list
\* computed before the assignment without running the fragmentation; a
\* fragmentation runs only on an empty cache or with force, and only the
\* setters of seq, charge and mods empty a populated cache.
C27_PlainSlotsKeepCache ==
    [][/\ op' \in PlainSlots => fragment_ions' = fragment_ions
       /\ (op \in PlainSlots /\ fragment_ions.some
           /\ op' = "fragment" /\ ~arg'.force)
              => /\ ~recomputed'
                 /\ err' = "none"
                 /\ ret'.ions = fragment_ions.val
                 /\ fragment_ions' = fragment_ions
       /\ (op' = "fragment" /\ recomputed')
              => (~fragment_ions.some \/ arg'.force)
       /\ (fragment_ions.some /\ ~fragment_ions'.some) => op' \in Setters]_vars

\* A non-forced fragment() for b ions, made while radical is set, has
\* returned from the cache the list of the same peptide with radical not set,
\* which is not what a fragmentation would give now.
C27_Witness ==
    /\ op = "fragment" /\ ~recomputed /\ ~arg.force /\ radical
    /\ arg.ion_types = <<Entry("b", NoLosses)>>
    /\ Len(seq) = 3
    /\ ret.ions = _fragment(seq, charge, mods, mass_type, FALSE, arg.ion_types).val
    /\ ret.ions # Recomputation(arg.ion_types).val


(***************************************************************************)
(* Properties of the Peptide object                                        *)
(***************************************************************************)
\* C24: the Peptide owns its modification list by value: when the caller
\* changes in place the list it passed, the Peptide's mods and its mass stay
\* as they were.
C24_ModsOwnedByValue ==
    [][op' = "mutate"
          => /\ mods' = mods
             /\ mass(seq, mods', mass_type) = mass(seq, mods, mass_type)]_vars

\* C26: a comparison with an object that is no Peptide raises nothing and
\* finds the two unequal; two Peptides are equal exactly when their seq,
\* charge and mods are equal; equal Peptides have equal hashes.
C26_Equality ==
    op = "eq"
        => /\ err = "none"
           /\ ret.eq <=> /\ arg.other.peptide
                         /\ seq = arg.other.seq
                         /\ charge = arg.other.charge
                         /\ mods = arg.other.mods
           /\ ret.eq => __hash__(seq, charge)
                            = __hash__(arg.other.seq, arg.other.charge)

\* C30: a fragment() call that raises, forced or not, leaves the cached
\* fragment_ions exactly as it was before the call and returns no list.
C30_FailureKeepsCache ==
    (op = "fragment" /\ err # "none")
        => /\ fragment_ions = old
           /\ ret = NoRet

\* A forced call has raised on a populated cache, which still holds its
\* ions.
C30_Witness ==
    /\ op = "fragment" /\ arg.force /\ err = "KeyError"
    /\ old.some /\ old.val # <<>>
    /\ fragment_ions = old


(***************************************************************************)
(* Properties of concurrent calls                                          *)
(***************************************************************************)
\* What the thread's call returns when no other thread runs.
FragmentedAlone(th) ==
    imm_generate(thread_masses(th), 1, th.seq, th.mods, NoLosses).val

\* C23: two threads that fragment two distinct Peptides at the same time
\* each end, under every interleaving, with the list that their Peptide
\* fragments to alone: no call raises, none returns another list.
C23_ThreadsIsolated ==
    \A t \in DOMAIN threads :
        threads[t].pc \notin {"call", "sequence", "loop"}
            => /\ threads[t].pc = "returned"
               /\ threads[t].ions = FragmentedAlone(threads[t])

=============================================================================
